---- MODULE Spec2Model ----
(***************************************************************************)
(* Model of FloatingPointErrorAnalyzer.run_analysis (error.py): the        *)
(* cumulative addition of a small number to a large one in a fixed-width   *)
(* binary floating-point format, compared at every step against the exact  *)
(* Decimal value.                                                          *)
(*                                                                         *)
(* Numbers.  Every number is a record [k, v]: k = "fin" with the integer   *)
(* value v, k = "inf" with the sign v, or k = "nan".  The two binary       *)
(* formats are scaled down: a format is [p, emax] and its finite values    *)
(* are the integers m * 2^e with 0 <= m < 2^p and 0 <= e <= emax, so the   *)
(* grid has spacing 1 below 2^p and doubles at every power of two above    *)
(* it, exactly as a binary format's grid does relative to its own unit.    *)
(* Decimal values are exact integers: every magnitude the model reaches    *)
(* has far fewer than the 50 significant digits of the Decimal context,    *)
(* so Decimal addition, subtraction and multiplication never round.        *)
(***************************************************************************)
EXTENDS Integers, Sequences, FiniteSets, TLC

(* ---- bounds of the model ---- *)
\* significand width and largest exponent of the scaled-down float32
SingleBits == 3
SingleEmax == 3
\* significand width and largest exponent of the scaled-down float64
DoubleBits == 5
DoubleEmax == 5
\* largest iteration count typed into the "Number of Additions" entry
MaxIter == 3
\* largest decimal exponent tried when printing a float
MaxDecExp == 4

(* ---- numbers ---- *)
Fin(x) == [k |-> "fin", v |-> x]
PosInf == [k |-> "inf", v |-> 1]
NaN == [k |-> "nan", v |-> 0]
\* the value standing for an exception raised while computing a number
Raised(e) == [k |-> e, v |-> 0]
InvalidOperation == Raised("InvalidOperation")
ValueError == Raised("ValueError")
DivisionByZero == Raised("DivisionByZero")
IsRaised(x) == x.k \in {"InvalidOperation", "ValueError", "DivisionByZero"}

Abs(x) == IF x < 0 THEN -x ELSE x
Sign(x) == IF x < 0 THEN -1 ELSE 1

RECURSIVE Pow(_, _)
Pow(b, n) == IF n <= 0 THEN 1 ELSE b * Pow(b, n - 1)

RECURSIVE Gcd(_, _)
Gcd(a, b) == IF b = 0 THEN a ELSE Gcd(b, a % b)

(* ---- the binary formats (numpy float32 / float64) ---- *)
float32 == [name |-> "float32", p |-> SingleBits, emax |-> SingleEmax]
float64 == [name |-> "float64", p |-> DoubleBits, emax |-> DoubleEmax]

\* the exponent of the binade of magnitude a: the least e >= 0 with a < 2^(p+e)
RECURSIVE Binade(_, _, _)
Binade(fmt, a, e) ==
    IF a < Pow(2, fmt.p + e) THEN e ELSE Binade(fmt, a, e + 1)

\* round-to-nearest, ties-to-even, of the exact integer x into fmt; a result
\* beyond the largest exponent is the infinity of x's sign
FlRound(fmt, x) ==
    LET a == Abs(x)
        e == Binade(fmt, a, 0)
        q == Pow(2, e)
        m == a \div q
        r == a - m * q
        up == (2 * r > q) \/ (2 * r = q /\ m % 2 = 1)
        m2 == IF up THEN m + 1 ELSE m
    IN  IF e > fmt.emax \/ (e = fmt.emax /\ m2 >= Pow(2, fmt.p))
        THEN [k |-> "inf", v |-> Sign(x)]
        ELSE Fin(Sign(x) * m2 * q)

\* a + b in fmt (numpy scalar addition: overflow gives inf, no exception)
FlAdd(fmt, a, b) ==
    IF a.k = "nan" \/ b.k = "nan" THEN NaN
    ELSE IF a.k = "inf" /\ b.k = "inf" THEN (IF a.v = b.v THEN a ELSE NaN)
    ELSE IF a.k = "inf" THEN a
    ELSE IF b.k = "inf" THEN b
    ELSE FlRound(fmt, a.v + b.v)

(* ---- printing a float: str(actual_result), numpy's shortest repr ---- *)
\* the decimal closest to a among the multiples of 10^k that read back as a
\* in fmt, for the largest such k (the fewest digits); at k = 0 it is a itself
RECURSIVE Shortest(_, _, _)
Shortest(fmt, a, k) ==
    LET t == Pow(10, k)
        lo == (a \div t) * t
        hi == IF lo = a THEN a ELSE lo + t
        okLo == FlRound(fmt, lo) = Fin(a)
        okHi == FlRound(fmt, hi) = Fin(a)
        nearLo == (a - lo < hi - a) \/ (a - lo = hi - a /\ (lo \div t) % 2 = 0)
    IN  IF okLo /\ (~okHi \/ nearLo) THEN lo
        ELSE IF okHi THEN hi
        ELSE Shortest(fmt, a, k - 1)

\* the number denoted by the text str(x) of the float x of format fmt
FloatStr(fmt, x) ==
    IF x.k = "fin" THEN Fin(Sign(x.v) * Shortest(fmt, Abs(x.v), MaxDecExp))
    ELSE x

(* ---- decimal.Decimal under the default context (prec = 50, traps set) ---- *)
\* texts typed into an entry: a decimal numeral, "NaN", "Infinity" or
\* something that is no number at all
Num(x) == [t |-> "num", v |-> x]
Word(w) == [t |-> w, v |-> 0]

\* Decimal(text): InvalidOperation (ConversionSyntax) for a non-number
DecParse(text) ==
    CASE text.t = "num" -> Fin(text.v)
      [] text.t = "nan" -> NaN
      [] text.t = "inf" -> PosInf
      [] OTHER -> InvalidOperation

\* dtype(text): ValueError for what float() does not read
FloatParse(fmt, text) ==
    CASE text.t = "num" -> FlRound(fmt, text.v)
      [] text.t = "nan" -> NaN
      [] text.t = "inf" -> PosInf
      [] OTHER -> ValueError

\* int(text): ValueError for what is no integer numeral
IntParses(text) == text.t = "num"

DecMul(a, b) ==
    IF IsRaised(a) THEN a ELSE IF IsRaised(b) THEN b
    ELSE IF a.k = "nan" \/ b.k = "nan" THEN NaN
    ELSE IF a.k = "inf" \/ b.k = "inf"
         THEN IF a.v = 0 \/ b.v = 0 THEN InvalidOperation
              ELSE [k |-> "inf", v |-> Sign(a.v) * Sign(b.v)]
    ELSE Fin(a.v * b.v)

DecAdd(a, b) ==
    IF IsRaised(a) THEN a ELSE IF IsRaised(b) THEN b
    ELSE IF a.k = "nan" \/ b.k = "nan" THEN NaN
    ELSE IF a.k = "inf" /\ b.k = "inf"
         THEN IF a.v = b.v THEN a ELSE InvalidOperation
    ELSE IF a.k = "inf" THEN a
    ELSE IF b.k = "inf" THEN b
    ELSE Fin(a.v + b.v)

DecNeg(a) == IF a.k \in {"fin", "inf"} THEN [a EXCEPT !.v = -a.v] ELSE a

DecSub(a, b) == DecAdd(a, DecNeg(b))

DecAbs(a) == IF a.k \in {"fin", "inf"} THEN [a EXCEPT !.v = Abs(a.v)] ELSE a

\* a != 0 (a NaN compares unequal to everything)
DecNonZero(a) == ~(a.k = "fin" /\ a.v = 0)

\* the quotient a / b times 100, as the fraction n/d in lowest terms (the
\* context rounds the quotient to 50 digits; the model keeps the exact ratio)
Ratio(n, d) ==
    LET g == Gcd(Abs(n), Abs(d))
    IN  [k |-> "fin", v |-> (Sign(d) * n) \div g, d |-> Abs(d) \div g]

DecPercent(a, b) ==
    IF IsRaised(a) THEN a ELSE IF IsRaised(b) THEN b
    ELSE IF a.k = "nan" \/ b.k = "nan" THEN NaN
    ELSE IF a.k = "inf" /\ b.k = "inf" THEN InvalidOperation
    ELSE IF a.k = "inf" THEN [k |-> "inf", v |-> Sign(a.v) * Sign(b.v)]
    ELSE IF b.k = "inf" THEN Fin(0)
    ELSE IF b.v = 0 THEN DivisionByZero
    ELSE Ratio(a.v * 100, b.v)

(* ---- the window: entries, result labels, plot, and run_analysis ---- *)
VARIABLES
    large_num_var,          \* text of the "Large Base Number" entry
    small_num_var,          \* text of the "Small Number to Add" entry
    iterations_var,         \* text of the "Number of Additions" entry
    precision_var,          \* choice of the read-only precision combobox
    expected_var,           \* the four result labels
    actual_var,
    abs_error_var,
    rel_error_var,
    plot,                   \* what the canvas shows
    pc,                     \* "idle" (in mainloop) or "loop" (inside run_analysis)
    outcome,                \* how the last call ended: "none", "ok",
                            \* "invalid_input" (message box), "exception"
    large_num_str,          \* locals of the last call that passed the try block
    small_num_str,
    iterations,
    dtype,
    i,                      \* the last step the loop completed
    actual_result,          \* the accumulator
    errors_over_time,       \* the error trajectory
    expected_result_dec,
    absolute_error,
    relative_error_percent,
    memo                    \* observer: an earlier completed run, remembered

entries == <<large_num_var, small_num_var, iterations_var, precision_var>>
display == <<expected_var, actual_var, abs_error_var, rel_error_var, plot>>
locals == <<large_num_str, small_num_str, iterations, dtype, i, actual_result,
            errors_over_time, expected_result_dec, absolute_error,
            relative_error_percent>>
vars == <<entries, display, pc, outcome, locals, memo>>

Unset == [k |-> "unset", v |-> 0]
NoText == Word("unset")
\* the "-" the result labels start with, and the empty axes
Dash == [k |-> "-", v |-> 0]
EmptyAxes == [steps |-> 0, errors |-> <<>>, title |-> "-"]

Single == "Single (32-bit)"
Double == "Double (64-bit)"
Precisions == {Single, Double}

\* the texts a user types
LargeTexts == {Num(48), Num(-9), Word("nan"), Word("inf"), Word("abc")}
SmallTexts == {Num(0), Num(3), Num(8)}
IterTexts == {Num(n) : n \in -1..MaxIter} \cup {Word("abc")}

\* the format the combobox choice p selects
DtypeOf(p) == IF p = Single THEN float32 ELSE float64

\* how the try block ends for the texts b, s, n under precision p: the first
\* conversion that raises decides
TryBlock(b, s, n, p) ==
    IF ~IntParses(n) THEN "ValueError"
    ELSE IF IsRaised(DecParse(b)) \/ IsRaised(DecParse(s))
         THEN "InvalidOperation"
    ELSE IF IsRaised(FloatParse(DtypeOf(p), b))
            \/ IsRaised(FloatParse(DtypeOf(p), s))
         THEN "ValueError"
    ELSE "ok"

Init ==
    /\ large_num_var = Num(48) /\ small_num_var = Num(8)
    /\ iterations_var = Num(2) /\ precision_var = Single
    /\ expected_var = Dash /\ actual_var = Dash
    /\ abs_error_var = Dash /\ rel_error_var = Dash
    /\ plot = EmptyAxes
    /\ pc = "idle" /\ outcome = "none"
    /\ large_num_str = NoText /\ small_num_str = NoText
    /\ iterations = 0 /\ dtype = Unset
    /\ i = 0 /\ actual_result = Unset /\ errors_over_time = <<>>
    /\ expected_result_dec = Unset /\ absolute_error = Unset
    /\ relative_error_percent = Unset
    /\ memo = Unset

(* the user edits an entry or picks a precision *)
EditLarge(texts) ==
    /\ pc = "idle"
    /\ \E b \in texts : large_num_var' = b
    /\ UNCHANGED <<small_num_var, iterations_var, precision_var, display, pc,
                   outcome, locals, memo>>

EditSmall(texts) ==
    /\ pc = "idle"
    /\ \E s \in texts : small_num_var' = s
    /\ UNCHANGED <<large_num_var, iterations_var, precision_var, display, pc,
                   outcome, locals, memo>>

EditIterations(texts) ==
    /\ pc = "idle"
    /\ \E n \in texts : iterations_var' = n
    /\ UNCHANGED <<large_num_var, small_num_var, precision_var, display, pc,
                   outcome, locals, memo>>

PickPrecision ==
    /\ pc = "idle"
    /\ \E p \in Precisions : precision_var' = p
    /\ UNCHANGED <<large_num_var, small_num_var, iterations_var, display, pc,
                   outcome, locals, memo>>

(* the observer: memo is a completed run and what was called since *)
RunRecord ==
    [base |-> large_num_str, inc |-> small_num_str, n |-> iterations,
     fmt |-> dtype, expected |-> expected_result_dec, actual |-> actual_result,
     abs |-> absolute_error, rel |-> relative_error_percent,
     errors |-> errors_over_time, seen |-> {}]
Noted(m, what) ==
    IF m = Unset THEN m ELSE [m EXCEPT !.seen = m.seen \cup {what}]
SameInputs ==
    /\ memo # Unset
    /\ memo.base = large_num_str /\ memo.inc = small_num_str
    /\ memo.n = iterations /\ memo.fmt = dtype

Remember ==
    /\ pc = "idle" /\ outcome = "ok"
    /\ memo' = RunRecord
    /\ UNCHANGED <<entries, display, pc, outcome, locals>>

(* "Run Analysis" is pressed: run_analysis reads the entries *)
Pressed == pc = "idle"
TryResult == TryBlock(large_num_var, small_num_var, iterations_var, precision_var)

NoLocals ==
    /\ large_num_str' = NoText /\ small_num_str' = NoText
    /\ iterations' = 0 /\ dtype' = Unset
    /\ i' = 0 /\ actual_result' = Unset /\ errors_over_time' = <<>>
    /\ expected_result_dec' = Unset /\ absolute_error' = Unset
    /\ relative_error_percent' = Unset

\* the except clause: a ValueError shows the message box and returns
RunInvalid ==
    /\ Pressed
    /\ TryResult = "ValueError"
    /\ pc' = "idle" /\ outcome' = "invalid_input"
    /\ NoLocals
    /\ memo' = Noted(memo, "invalid_input")
    /\ UNCHANGED <<entries, display>>

\* decimal.InvalidOperation is no ValueError: it leaves run_analysis uncaught
RunRaises ==
    /\ Pressed
    /\ TryResult = "InvalidOperation"
    /\ pc' = "idle" /\ outcome' = "exception"
    /\ NoLocals
    /\ UNCHANGED <<entries, display, memo>>

\* faulty variant of RunStart: the trajectory list outlives the call
RunStartKeepsTrajectory ==
    /\ Pressed
    /\ TryResult = "ok"
    /\ large_num_str' = large_num_var /\ small_num_str' = small_num_var
    /\ iterations' = iterations_var.v
    /\ dtype' = DtypeOf(precision_var)
    /\ actual_result' = FloatParse(DtypeOf(precision_var), large_num_var)
    /\ errors_over_time' = errors_over_time
    /\ i' = 0
    /\ expected_result_dec' = Unset /\ absolute_error' = Unset
    /\ relative_error_percent' = Unset
    /\ pc' = "loop" /\ outcome' = "none"
    /\ UNCHANGED <<entries, display, memo>>

\* faulty variant of RunStart: the accumulator starts from zero
RunStartFromZero ==
    /\ Pressed
    /\ TryResult = "ok"
    /\ large_num_str' = large_num_var /\ small_num_str' = small_num_var
    /\ iterations' = iterations_var.v
    /\ dtype' = DtypeOf(precision_var)
    /\ actual_result' = Fin(0)
    /\ errors_over_time' = <<>>
    /\ i' = 0
    /\ expected_result_dec' = Unset /\ absolute_error' = Unset
    /\ relative_error_percent' = Unset
    /\ pc' = "loop" /\ outcome' = "none"
    /\ UNCHANGED <<entries, display, memo>>

\* the try block passes: the accumulator starts from the converted base
RunStart ==
    /\ Pressed
    /\ TryResult = "ok"
    /\ large_num_str' = large_num_var /\ small_num_str' = small_num_var
    /\ iterations' = iterations_var.v
    /\ dtype' = DtypeOf(precision_var)
    /\ actual_result' = FloatParse(DtypeOf(precision_var), large_num_var)
    /\ errors_over_time' = <<>>
    /\ i' = 0
    /\ expected_result_dec' = Unset /\ absolute_error' = Unset
    /\ relative_error_percent' = Unset
    /\ pc' = "loop" /\ outcome' = "none"
    /\ UNCHANGED <<entries, display, memo>>

large_num_dec == DecParse(large_num_str)
small_num_dec == DecParse(small_num_str)
small_num_float == FloatParse(dtype, small_num_str)

\* the exact value after step n, and the error of the printed accumulator x
ExpectedAt(n) == DecAdd(large_num_dec, DecMul(Fin(n), small_num_dec))
\* faulty variant of ErrorOf: the abs() is missing
ErrorOfSigned(x, n) == DecSub(FloatStr(dtype, x), ExpectedAt(n))
ErrorOf(x, n) == DecAbs(DecSub(FloatStr(dtype, x), ExpectedAt(n)))

\* faulty variant of Remaining: the loop breaks once the accumulator overflows
RemainingUntilInf == i < iterations /\ actual_result.k # "inf"

\* range(1, iterations + 1) has a next step
Remaining == i < iterations

\* faulty variant of LoopStep: the sample is inserted at the front
LoopStepPrepends ==
    /\ pc = "loop" /\ Remaining
    /\ LET acc == FlAdd(dtype, actual_result, small_num_float)
           current_error == ErrorOf(acc, i + 1)
       IN  /\ ~IsRaised(current_error)
           /\ actual_result' = acc
           /\ errors_over_time' = <<current_error>> \o errors_over_time
    /\ i' = i + 1
    /\ UNCHANGED <<entries, display, pc, outcome, large_num_str, small_num_str,
                   iterations, dtype, expected_result_dec, absolute_error,
                   relative_error_percent, memo>>

\* one pass of the for loop
LoopStep ==
    /\ pc = "loop" /\ Remaining
    /\ LET acc == FlAdd(dtype, actual_result, small_num_float)
           current_error == ErrorOf(acc, i + 1)
       IN  /\ ~IsRaised(current_error)
           /\ actual_result' = acc
           /\ errors_over_time' = Append(errors_over_time, current_error)
    /\ i' = i + 1
    /\ UNCHANGED <<entries, display, pc, outcome, large_num_str, small_num_str,
                   iterations, dtype, expected_result_dec, absolute_error,
                   relative_error_percent, memo>>

\* a pass whose Decimal arithmetic raises (Infinity - Infinity)
LoopRaises ==
    /\ pc = "loop" /\ Remaining
    /\ LET acc == FlAdd(dtype, actual_result, small_num_float)
       IN  /\ IsRaised(ErrorOf(acc, i + 1))
           /\ actual_result' = acc
    /\ i' = i + 1
    /\ pc' = "idle" /\ outcome' = "exception"
    /\ UNCHANGED <<entries, display, large_num_str, small_num_str, iterations,
                   dtype, errors_over_time, expected_result_dec,
                   absolute_error, relative_error_percent, memo>>

\* faulty variant of FinalExpected: one step short
FinalExpectedOffByOne == ExpectedAt(iterations - 1)

\* the summary after the loop
FinalExpected == ExpectedAt(iterations)
FinalError == ErrorOf(actual_result, iterations)

\* faulty variant of RelativeError: the guard tests the error, not the divisor
RelativeErrorGuardsError(abs_err, expected) ==
    IF DecNonZero(abs_err)
    THEN DecPercent(abs_err, DecAbs(expected))
    ELSE Ratio(0, 1)

\* relative error: the zero guard, else absolute / |expected| * 100
RelativeError(abs_err, expected) ==
    IF DecNonZero(expected)
    THEN DecPercent(abs_err, DecAbs(expected))
    ELSE Ratio(0, 1)

\* what ax.plot draws: the steps of range(1, n + 1) against the trajectory
Plotted(n, errs, fmt) ==
    [steps |-> IF n > 0 THEN n ELSE 0, errors |-> errs, title |-> fmt.name]

\* after the loop: the summary, the labels and the plot
Finish ==
    /\ pc = "loop" /\ ~Remaining
    /\ LET rel == RelativeError(FinalError, FinalExpected)
       IN  /\ ~IsRaised(FinalError) /\ ~IsRaised(rel)
           /\ expected_result_dec' = FinalExpected
           /\ absolute_error' = FinalError
           /\ relative_error_percent' = rel
           /\ expected_var' = FinalExpected
           /\ actual_var' = actual_result
           /\ abs_error_var' = FinalError
           /\ rel_error_var' = rel
    /\ plot' = Plotted(iterations, errors_over_time, dtype)
    /\ pc' = "idle" /\ outcome' = "ok"
    /\ memo' = IF SameInputs THEN memo ELSE Noted(memo, "other")
    /\ UNCHANGED <<entries, large_num_str, small_num_str, iterations, dtype, i,
                   actual_result, errors_over_time>>

\* the summary's Decimal arithmetic raises: nothing is displayed
FinishRaises ==
    /\ pc = "loop" /\ ~Remaining
    /\ \/ IsRaised(FinalError)
       \/ IsRaised(RelativeError(FinalError, FinalExpected))
    /\ pc' = "idle" /\ outcome' = "exception"
    /\ UNCHANGED <<entries, display, locals, memo>>

Next ==
    \/ EditLarge(LargeTexts)
    \/ EditSmall(SmallTexts)
    \/ EditIterations(IterTexts)
    \/ PickPrecision
    \/ RunInvalid
    \/ RunRaises
    \/ RunStart
    \/ LoopStep
    \/ LoopRaises
    \/ Finish
    \/ FinishRaises

Spec == Init /\ [][Next]_vars

(* the same window over fewer texts, with the observer remembering runs *)
MemoLargeTexts == {Num(9), Num(48)}
MemoSmallTexts == {Num(1), Num(8)}
MemoIterTexts == {Num(1), Num(2), Word("abc")}

NextMemo ==
    \/ EditLarge(MemoLargeTexts)
    \/ EditSmall(MemoSmallTexts)
    \/ EditIterations(MemoIterTexts)
    \/ PickPrecision
    \/ RunInvalid
    \/ RunStart
    \/ LoopStep
    \/ Finish
    \/ Remember

SpecMemo == Init /\ [][NextMemo]_vars

(* ================= what is checked ================= *)
Started == large_num_str # NoText
Done == pc = "idle" /\ outcome = "ok"
IsReal(text) == text.t = "num"
\* a run on the inputs the data model allows: real numbers, iterations >= 1
ValidRun == IsReal(large_num_str) /\ IsReal(small_num_str) /\ iterations >= 1

\* the accumulator after n additions, computed from the inputs alone
RECURSIVE AccAfter(_)
AccAfter(n) ==
    IF n <= 0 THEN FloatParse(dtype, large_num_str)
    ELSE FlAdd(dtype, AccAfter(n - 1), FloatParse(dtype, small_num_str))

\* a >= b for two numbers that are finite or infinite
DecGeq(a, b) ==
    /\ a.k \in {"fin", "inf"} /\ b.k \in {"fin", "inf"}
    /\ IF a.k = "inf" THEN a.v = 1 \/ b = a
       ELSE IF b.k = "inf" THEN b.v = -1
       ELSE a.v >= b.v

Zero == Ratio(0, 1)

C2_RejectsNonPositive ==
    [][(/\ Pressed /\ entries' = entries
        /\ ~(IntParses(iterations_var) /\ iterations_var.v >= 1))
       => (pc' = "idle" /\ outcome' = "invalid_input" /\ display' = display)]_vars

\* C3: when base or increment is no real number (no number at all, NaN,
\* Infinity), pressing Run ends the call before any computation, with an
\* error surfaced (message box or exception) and labels and plot unchanged.
C3_RejectsNonReal ==
    [][(/\ Pressed /\ entries' = entries
        /\ ~(IsReal(large_num_var) /\ IsReal(small_num_var)))
       => (/\ pc' = "idle"
           /\ outcome' \in {"invalid_input", "exception"}
           /\ display' = display)]_vars

\* C4: a run on valid inputs always completes, and its relative error is 0
\* when the absolute error is 0, is 0 when the exact expected value is 0 (no
\* division, so no DivisionByZero), and otherwise is
\* absolute_error / |expected| * 100.
C4_RelativeError ==
    (ValidRun /\ pc = "idle") =>
        /\ outcome = "ok"
        /\ absolute_error = Fin(0) => relative_error_percent = Zero
        /\ expected_result_dec = Fin(0) => relative_error_percent = Zero
        /\ expected_result_dec # Fin(0) =>
              IF absolute_error.k = "inf"
              THEN relative_error_percent = PosInf
              ELSE /\ relative_error_percent.k = "fin"
                   /\ relative_error_percent.d > 0
                   /\ relative_error_percent.v * Abs(expected_result_dec.v)
                        = absolute_error.v * 100 * relative_error_percent.d

C4_Witness ==
    /\ Done /\ ValidRun
    /\ expected_result_dec = Fin(0)
    /\ absolute_error # Fin(0)
    /\ relative_error_percent = Zero

\* C5: a completed run has the results of every earlier completed run on the
\* same inputs (base, increment, iterations, precision), whatever was run or
\* rejected in between.
C5_Idempotent ==
    (Done /\ SameInputs) =>
        /\ memo.expected = expected_result_dec
        /\ memo.actual = actual_result
        /\ memo.abs = absolute_error
        /\ memo.rel = relative_error_percent
        /\ memo.errors = errors_over_time

C5_Witness ==
    /\ Done /\ SameInputs
    /\ memo.seen = {"invalid_input", "other"}
    /\ memo.abs # Fin(0)

\* a completed run on valid inputs and an earlier one on the same base,
\* increment and iterations, one under Single and one under Double
SingleAndDouble ==
    /\ Done /\ ValidRun /\ memo # Unset
    /\ memo.base = large_num_str /\ memo.inc = small_num_str
    /\ memo.n = iterations
    /\ {memo.fmt, dtype} = {float32, float64}
SingleError == IF dtype = float32 THEN absolute_error ELSE memo.abs
DoubleError == IF dtype = float64 THEN absolute_error ELSE memo.abs

BaseRoundTripError ==
    DecAbs(DecSub(FloatStr(dtype, FloatParse(dtype, large_num_str)),
                  DecParse(large_num_str)))

\* C7 as claimed: with increment "0" the final absolute error is exactly 0.
C7_ZeroIncrementNoError ==
    (Done /\ ValidRun /\ small_num_str = Num(0)) => absolute_error = Fin(0)

\* C7 as amended: with increment "0" every sample and the final absolute
\* error equal the base's own round-trip error |Decimal(str(dtype(base))) -
\* Decimal(base)|, whatever the iteration count (so 0 exactly when the base
\* text survives conversion and printing).
C7_ZeroIncrementBaseError ==
    (ValidRun /\ small_num_str = Num(0)) =>
        /\ Done => absolute_error = BaseRoundTripError
        /\ \A k \in 1..Len(errors_over_time) :
              errors_over_time[k] = BaseRoundTripError

C7_Witness ==
    /\ Done /\ ValidRun /\ small_num_str = Num(0)
    /\ iterations >= 2
    /\ absolute_error = BaseRoundTripError
    /\ absolute_error # Fin(0)

\* C8: every sample and the final absolute error are the distance between
\* the accumulator's exact binary value and base + i*increment.
C8_ExactValueError ==
    ValidRun =>
        /\ \A k \in 1..Len(errors_over_time) :
              errors_over_time[k] = DecAbs(DecSub(AccAfter(k), ExpectedAt(k)))
        /\ Done => absolute_error
                     = DecAbs(DecSub(actual_result, ExpectedAt(iterations)))

\* C9: on valid inputs the accumulator after i steps is the converted base
\* plus i additions of the converted increment, one sample is recorded per
\* step, the call ends only after step `iterations` and never with an
\* exception; an accumulator that has become infinite shows as an infinite
\* sample at its step and as the final result.
C9_NoEarlyTermination ==
    ValidRun =>
        /\ actual_result = AccAfter(i)
        /\ Len(errors_over_time) = i
        /\ pc = "idle" => (outcome = "ok" /\ i = iterations)
        /\ (i >= 1 /\ actual_result.k = "inf") =>
              errors_over_time[i] = PosInf
        /\ (Done /\ actual_result.k = "inf") =>
              /\ absolute_error = PosInf
              /\ actual_var = actual_result
              /\ plot.errors[iterations] = PosInf

C9_Witness ==
    /\ Done /\ ValidRun /\ i = iterations /\ iterations >= 3
    /\ actual_result.k = "inf"
    /\ errors_over_time[1].k = "fin"
    /\ errors_over_time[2].k = "inf"

\* the exact sum base + n*increment, computed from the input texts
ExactSum ==
    IF IsReal(large_num_str) /\ IsReal(small_num_str)
    THEN Fin(large_num_str.v + iterations * small_num_str.v)
    ELSE NaN

\* C10: after a completed run with n >= 1 the summary agrees with the loop:
\* actual is the accumulator after step n, expected is base + n*increment,
\* and the final absolute error is the trajectory's last sample.
C10_SummaryMatchesTrajectory ==
    (Done /\ iterations >= 1) =>
        /\ actual_var = AccAfter(iterations)
        /\ expected_result_dec = ExactSum
        /\ expected_var = ExactSum
        /\ absolute_error = errors_over_time[iterations]
        /\ abs_error_var = errors_over_time[iterations]

C10_Witness ==
    /\ Done /\ ValidRun /\ iterations >= 2
    /\ absolute_error = errors_over_time[iterations]
    /\ absolute_error # errors_over_time[1]
    /\ actual_var # FloatParse(dtype, large_num_str)

====
